---- MODULE Spec2Model ----
(***************************************************************************)
(* 13F ingestion core: SecEdgarClient (source client), FilingParser and    *)
(* DataIngestionService (orchestrator) over an abstract relational store.  *)
(*                                                                         *)
(* Each await of the TypeScript code (a network request or a storage call) *)
(* is one step of the model; the code between two awaits runs atomically,  *)
(* as it does on the single-threaded event loop.                           *)
(***************************************************************************)
EXTENDS Integers, Sequences, FiniteSets, TLC

----------------------------------------------------------------------------
(* Bounds of the model *)

\* days of the ingestion window [startDate, endDate]
NumDays == 2
\* largest options.maxConcurrent a run is started with
MaxConcurrent == 2
\* ingestion runs per behaviour
MaxRuns == 2
\* environment failures (bad HTTP answers, garbled bodies, storage errors)
\* injected per behaviour
MaxFaults == 1

\* what one behaviour explores: several runs one filing at a time, or one
\* run with concurrent filings, with or without environment failures
Budgets ==
  { [runs |-> MaxRuns, concurrent |-> 1, faults |-> 0],
    [runs |-> 1, concurrent |-> MaxConcurrent, faults |-> 0],
    [runs |-> 1, concurrent |-> 2, faults |-> MaxFaults] }
\* concurrent callers of the client and clock horizon (ms) of the
\* rate-limiter specification
MaxCallers == 2
MaxTime == 400
\* the function calls examined on their own: largest market value (minor
\* units) of the two holdings a position change is derived from, largest
\* declared value (thousands) of a position, most holding nodes of a document
MaxMarketValue == 6
MaxDeclared == 20
MaxNodes == 2
\* the scheduler specification: cron callbacks that may be pending at once,
\* and triggers fired per behaviour
MaxTriggers == 2
MaxFirings == 5

----------------------------------------------------------------------------
(* Values *)

RECURSIVE SumSeq(_)
SumSeq(s) == IF s = <<>> THEN 0 ELSE Head(s) + SumSeq(Tail(s))

RECURSIVE FlatSeq(_)
\* the concatenation of a sequence of sequences
FlatSeq(ss) == IF ss = <<>> THEN <<>> ELSE Head(ss) \o FlatSeq(Tail(ss))

\* Math.round-style rounding of n / d for n >= 0, d > 0 (numeric(p,2) storage
\* of a value given in hundredths)
RoundDiv(n, d) == (n \div d) + (IF 2 * (n % d) >= d THEN 1 ELSE 0)

----------------------------------------------------------------------------
(* Shared utilities *)

Digits == {"0", "1", "2", "3", "4", "5", "6", "7", "8", "9"}
Upper == {"A", "B", "C", "D", "E", "F", "G", "H", "I", "J", "K", "L", "M",
          "N", "O", "P", "Q", "R", "S", "T", "U", "V", "W", "X", "Y", "Z"}

\* the characters of the identifier strings that occur in the documents
CusipChars ==
  ("037833100" :> <<"0", "3", "7", "8", "3", "3", "1", "0", "0">>) @@
  ("059428107" :> <<"0", "5", "9", "4", "2", "8", "1", "0", "7">>) @@
  ("03783310A" :> <<"0", "3", "7", "8", "3", "3", "1", "0", "A">>) @@
  ("0378331" :> <<"0", "3", "7", "8", "3", "3", "1">>)

\* /^[0-9A-Z]{8}[0-9]$/.test(cusip)
isValidCUSIP(cusip) ==
  LET cs == CusipChars[cusip] IN
    /\ Len(cs) = 9
    /\ \A i \in 1..8 : cs[i] \in Digits \cup Upper
    /\ cs[9] \in Digits

\* /^[0-9A-Z]{9}$/.test(part), the pattern of the HTML and text paths
IsNineAlnum(cusip) ==
  LET cs == CusipChars[cusip] IN
    /\ Len(cs) = 9
    /\ \A i \in 1..9 : cs[i] \in Digits \cup Upper

RECURSIVE ParseInt(_)
\* parseInt of a string of decimal digits, given as its digit sequence
ParseInt(ds) ==
  IF ds = <<>> THEN 0 ELSE 10 * ParseInt(SubSeq(ds, 1, Len(ds) - 1)) + ds[Len(ds)]

\* new ApiError(message, statusCode, code): an Error subclass; it is no
\* AxiosError and carries no response
ApiError(message, statusCode, code) ==
  [name |-> "ApiError", message |-> message, statusCode |-> statusCode,
   code |-> code, response |-> << >>]

\* an exception thrown by the storage layer (connection or constraint)
StorageError(message) ==
  [name |-> "Error", message |-> message, statusCode |-> 0,
   code |-> "STORAGE", response |-> << >>]

----------------------------------------------------------------------------
(* The external source: index files and documents *)

Cik1 == <<7, 3>>
Cik2 == <<2>>
Cik3 == <<9>>
\* a filer with no filing in the window
Cik0 == <<5>>

IndexEntry(acc, cik, name, form, date) ==
  [accession_number |-> acc, cik |-> cik, company_name |-> name,
   form_type |-> form, date_filed |-> date]

\* the entries of the daily form index of a day, as parseIndexFile yields them
DailyIndexFile(day) ==
  CASE day = 1 -> << IndexEntry("a1", Cik1, "Alpha", "13F-HR", 1),
                     IndexEntry("k1", Cik1, "Alpha", "10-K", 1),
                     IndexEntry("a2", Cik2, "Beta", "13F-HR", 1) >>
    [] day = 2 -> << IndexEntry("a3", Cik1, "Alpha Capital", "13F-HR/A", 2),
                     IndexEntry("a4", Cik3, "Gamma", "13F-HR", 2) >>
    [] OTHER -> << >>

\* one position as the filer states it: value in thousands
Row(cusip, issuer, value, shares) ==
  [cusip |-> cusip, nameOfIssuer |-> issuer, titleOfClass |-> "COM",
   value |-> value, sshPrnamt |-> shares, sshPrnamtType |-> "PRN",
   investmentDiscretion |-> "SHARED", votingSole |-> shares]

\* a document: which dialect markers its text contains, whether it has an
\* information-table section, the quarter-end day its cover page states
\* (<< >> when it states none), and its rows
Doc(xml, html, text, table, quarter, rows) ==
  [xml |-> xml, html |-> html, text |-> text, table |-> table,
   quarter |-> quarter, rows |-> rows]

Document(acc) ==
  CASE acc = "a1" -> Doc(FALSE, FALSE, TRUE, TRUE, << >>,
                         << Row("037833100", "APPLE", 2, 10),
                            Row("059428107", "BANCO", 1, 5) >>)
    [] acc = "a2" -> Doc(FALSE, TRUE, FALSE, TRUE, << >>,
                         << Row("037833100", "APPLE INC", 0, 7) >>)
    [] acc = "a3" -> Doc(FALSE, FALSE, TRUE, TRUE, <<1>>,
                         << Row("037833100", "APPLE", 1, 15),
                            Row("03783310A", "NOISE", 1, 1) >>)
    [] OTHER -> Doc(TRUE, FALSE, FALSE, TRUE, <<1>>,
                    << Row("059428107", "BANCO", 1, 3) >>)

\* a body in none of the three dialects (an error page served with 200)
GarbledDoc == Doc(FALSE, FALSE, FALSE, FALSE, << >>, << >>)

----------------------------------------------------------------------------
(* FilingParser *)

Ok(v) == [ok |-> TRUE, value |-> v]
Fail(e) == [ok |-> FALSE, error |-> e]

\* the xml2js options of the constructor
XmlParserOptions == [explicitRoot |-> FALSE, normalizeTags |-> TRUE]

\* the object xml2js builds for one <infoTable> node: with normalizeTags the
\* keys are the lower-cased tag names
XmlNode(row) ==
  LET n == [cusip |-> row.cusip, value |-> row.value,
            nameOfIssuer |-> row.nameOfIssuer, titleOfClass |-> row.titleOfClass,
            sshPrnamt |-> row.sshPrnamt, sshPrnamtType |-> row.sshPrnamtType,
            investmentDiscretion |-> row.investmentDiscretion,
            votingSole |-> row.votingSole]
      lower == [cusip |-> row.cusip, value |-> row.value,
                nameofissuer |-> row.nameOfIssuer, titleofclass |-> row.titleOfClass,
                sshprnamt |-> row.sshPrnamt, sshprnamttype |-> row.sshPrnamtType,
                investmentdiscretion |-> row.investmentDiscretion,
                votingsole |-> row.votingSole]
  IN IF XmlParserOptions.normalizeTags THEN lower ELSE n

\* parseStringPromise of the <informationTable> fragment: with explicitRoot
\* false the result is the content of the root, not an object holding the
\* root under its (normalised) name
XmlParse(rows) ==
  LET nodes == [i \in 1..Len(rows) |-> XmlNode(rows[i])]
      root == IF XmlParserOptions.normalizeTags THEN "informationtable"
              ELSE "informationTable"
  IN IF XmlParserOptions.explicitRoot
       THEN (root :> [infotable |-> nodes])
       ELSE [infotable |-> nodes]

\* a || b || ... || dflt over the properties `keys` of an object
FirstOf(obj, keys, dflt) ==
  LET present == SelectSeq(keys, LAMBDA k : k \in DOMAIN obj)
  IN IF present = << >> THEN dflt ELSE obj[Head(present)]

\* parseHoldingEntry: << >> for a node it drops, else <<holding>>
parseHoldingEntry(holding) ==
  LET cusip == FirstOf(holding, <<"cusip", "CUSIP">>, "")
  IN IF cusip = "" \/ ~isValidCUSIP(cusip) THEN << >>
     ELSE << [nameOfIssuer |-> FirstOf(holding, <<"nameOfIssuer", "NAMEOFISSUER">>, ""),
              titleOfClass |-> FirstOf(holding, <<"titleOfClass", "TITLEOFCLASS">>, ""),
              cusip |-> cusip,
              value |-> FirstOf(holding, <<"value", "VALUE">>, 0) * 1000,
              sshPrnamt |-> FirstOf(holding, <<"sshPrnamt", "SSHPRNAMT">>, 0),
              sshPrnamtType |-> FirstOf(holding, <<"sshPrnamtType">>, "SH"),
              investmentDiscretion |-> FirstOf(holding, <<"investmentDiscretion">>, "SOLE"),
              votingSole |-> FirstOf(holding, <<"votingSole">>, 0)] >>

\* parseTextTableRow / createHoldingFromCells: the cell matching nine
\* characters of 0-9A-Z is the identifier, the cells after it the declared
\* value and the share count
parseTextTableRow(row) ==
  IF ~IsNineAlnum(row.cusip) THEN << >>
  ELSE << [nameOfIssuer |-> row.nameOfIssuer,
           titleOfClass |-> row.titleOfClass,
           cusip |-> row.cusip,
           value |-> row.value * 1000,
           sshPrnamt |-> row.sshPrnamt,
           sshPrnamtType |-> "SH",
           investmentDiscretion |-> "SOLE",
           votingSole |-> row.sshPrnamt] >>

\* calculateSummaryFromHoldings
calculateSummaryFromHoldings(hs) ==
  [tableEntryTotal |-> Len(hs),
   tableValueTotal |-> SumSeq([i \in 1..Len(hs) |-> hs[i].value])]

\* extractCoverPageFromXml: reportDate is new Date()
extractCoverPageFromXml(content, now) == [reportDate |-> now]

\* extractCoverPageFromText: the "QUARTER ENDED:" date when the text has one,
\* else new Date()
extractCoverPageFromText(content, now) ==
  [reportDate |-> IF content.quarter # << >> THEN content.quarter[1] ELSE now]

Parsed(cover, hs) ==
  [coverPage |-> cover, summaryPage |-> calculateSummaryFromHoldings(hs),
   informationTable |-> hs]

\* parseXmlFiling; every exception of its body is rethrown as XML_PARSE_ERROR
parseXmlFiling(content, now) ==
  IF ~content.table
    THEN Fail(ApiError(<<"Failed to parse XML filing", "Information table not found in XML">>,
                       400, "XML_PARSE_ERROR"))
  ELSE LET parsed == XmlParse(content.rows) IN
    IF "informationtable" \notin DOMAIN parsed
      \* parsed.informationtable is undefined: reading .infotable of it throws
      THEN Fail(ApiError(<<"Failed to parse XML filing", "Cannot read properties of undefined">>,
                         400, "XML_PARSE_ERROR"))
    ELSE Ok(Parsed(extractCoverPageFromXml(content, now),
                   FlatSeq([k \in DOMAIN parsed.informationtable.infotable |->
                              parseHoldingEntry(parsed.informationtable.infotable[k])])))

\* parseHtmlFiling and parseTableFromHtml
parseHtmlFiling(content, now) ==
  IF ~content.table
    THEN Fail(ApiError(<<"Information table not found in HTML">>, 400, "NO_INFO_TABLE"))
  ELSE Ok(Parsed(extractCoverPageFromText(content, now),
                 FlatSeq([k \in DOMAIN content.rows |-> parseTextTableRow(content.rows[k])])))

\* parseTextFiling: rows are read from the table section; a text without
\* the section yields no holdings
parseTextFiling(content, now) ==
  Ok(Parsed(extractCoverPageFromText(content, now),
            IF content.table THEN FlatSeq([k \in DOMAIN content.rows |-> parseTextTableRow(content.rows[k])])
            ELSE << >>))

\* a detection that tries the text path first and the XML path last
parseFilingTextFirst(content, now) ==
  IF content.text THEN parseTextFiling(content, now)
  ELSE IF content.html THEN parseHtmlFiling(content, now)
  ELSE IF content.xml THEN parseXmlFiling(content, now)
  ELSE Fail(ApiError(<<"Unsupported filing format">>, 400, "UNSUPPORTED_FORMAT"))

\* parseFiling: dialect detection in the fixed order XML, HTML, text
parseFiling(content, now) ==
  IF content.xml THEN parseXmlFiling(content, now)
  ELSE IF content.html THEN parseHtmlFiling(content, now)
  ELSE IF content.text THEN parseTextFiling(content, now)
  ELSE Fail(ApiError(<<"Unsupported filing format">>, 400, "UNSUPPORTED_FORMAT"))

----------------------------------------------------------------------------
(* SecEdgarClient *)

\* what the source answers to one request: an HTTP status, 0 when the
\* request got no response at all (network error, timeout)
Statuses == {200, 404, 429, 403, 0}

\* the error axios rejects with for a non-2xx answer or a lost request
AxiosError(status) ==
  [name |-> "AxiosError",
   message |-> IF status = 0 THEN <<"Network Error">>
               ELSE <<"Request failed with status code", ToString(status)>>,
   statusCode |-> 0, code |-> "ERR_BAD_RESPONSE",
   response |-> IF status = 0 THEN << >> ELSE <<status>>]

\* a response interceptor that reports every failed request alike
responseInterceptorGeneric(error) ==
  ApiError(error.message,
           IF error.response = << >> THEN 500 ELSE error.response[1],
           "EDGAR_API_ERROR")

\* the rejection handler of the response interceptor: what it throws for the
\* axios error `error`
responseInterceptor(error) ==
  IF error.response = <<429>>
    THEN ApiError(<<"Rate limit exceeded">>, 429, "RATE_LIMIT")
  ELSE IF error.response = <<403>>
    THEN ApiError(<<"Access forbidden - check User-Agent header">>, 403, "FORBIDDEN")
  ELSE ApiError(error.message,
                IF error.response = << >> THEN 500 ELSE error.response[1],
                "EDGAR_API_ERROR")

\* this.client.get(url): the response, or the error the caller catches
clientGet(status, data) ==
  IF status = 200 THEN Ok(data) ELSE Fail(responseInterceptor(AxiosError(status)))

isAxiosError(error) == error.name = "AxiosError"

\* the test of the catch blocks of getDailyIndex and downloadFiling:
\* axios.isAxiosError(error) && error.response?.status === 404
caughtNotFound(error) == isAxiosError(error) /\ error.response = <<404>>

\* the URL of the daily index of a day
indexUrl(d) == <<"daily-index", d>>

\* possiblePaths of downloadFiling, in the order they are tried
possiblePaths(acc) ==
  << <<acc, "form13fInfoTable.xml">>, <<acc, "primary_doc.xml">>, <<acc, "txt">> >>

\* getDailyIndex after its request was answered
getDailyIndex(status, d) ==
  LET r == clientGet(status, DailyIndexFile(d)) IN
    IF r.ok THEN r
    ELSE IF caughtNotFound(r.error) THEN Ok(<< >>)
    ELSE r

\* the form-type filter of get13FFilings
filter13F(entries) ==
  SelectSeq(entries, LAMBDA f : f.form_type = "13F-HR" \/ f.form_type = "13F-HR/A")

\* one turn of the path loop of downloadFiling after the request for path
\* number k was answered: "return" the body, "continue" with the next path,
\* or "throw"
downloadFilingStep(status, data, k, acc) ==
  LET r == clientGet(status, data) IN
    IF r.ok THEN [do |-> "return", value |-> r.value]
    ELSE IF caughtNotFound(r.error)
      THEN (IF k < Len(possiblePaths(acc))
              THEN [do |-> "continue"]
              ELSE [do |-> "throw",
                    error |-> ApiError(<<"13F filing not found for accession", acc>>,
                                       404, "FILING_NOT_FOUND")])
    ELSE [do |-> "throw", error |-> r.error]

\* this.rateLimitDelay = 1000 / rateLimitPerSecond, in ms
RateLimitPerSecond == 10
rateLimitDelay == 1000 \div RateLimitPerSecond

\* the callers of client.get: the filing tasks of one batch
Callers == 1..MaxCallers

\* the gate at rest: the clock (ms), what each caller is doing ("idle",
\* "delay" in the request interceptor, "sent"), when its setTimeout is due,
\* and the times of the last two requests dispatched to the source
NetInit ==
  [now |-> 0,
   at |-> [c \in Callers |-> "idle"],
   due |-> [c \in Callers |-> 0],
   dispatched |-> << >>]

\* the cron callbacks that may be pending at once
Triggers == 1..MaxTriggers

\* private isRunning = false; no callback is awaiting a run, nothing has
\* been started, skipped or ended
SchedInit ==
  [isRunning |-> FALSE, at |-> [c \in Triggers |-> "idle"],
   started |-> 0, skipped |-> 0, ended |-> << >>]

\* no function call under examination
NoProbe == [op |-> "none", input |-> << >>, output |-> << >>]

----------------------------------------------------------------------------
(* DataIngestionService: state *)

VARIABLES
  fundManagers,     \* table fund_managers, row i has id i
  securities,       \* table securities
  filings,          \* table filings
  holdings,         \* table holdings
  positionChanges,  \* table position_changes
  db,               \* this.db is set (connectDb succeeded)
  today,            \* the day new Date() falls on
  pc,               \* where ingestFilings stands
  opts,             \* the options of the run
  day,              \* currentDate of get13FFilings
  idxRequested,     \* URLs requested by get13FFilings in this call
  filingIndexes,    \* the entries get13FFilings has collected
  batches,          \* createBatches(filteredFilings, maxConcurrent)
  batchIdx,         \* the batch being awaited
  tasks,            \* the processSingleFiling calls of that batch
  result,           \* the IngestionResult under construction
  faults,           \* environment failures so far
  runs,             \* runs returned so far
  hist,             \* what each returned run saw and left
  failedFilings,    \* filings of this run a step of which failed
  net,              \* the request gate of the client (see the rate limiter)
  probe,            \* a function call on drawn arguments (see the pure functions)
  sched,            \* the IngestionScheduler (see the scheduler)
  budget            \* the budget of this behaviour, one of Budgets

vars == <<fundManagers, securities, filings, holdings, positionChanges, db,
          today, pc, opts, day, idxRequested, filingIndexes, batches, batchIdx,
          tasks, result, faults, runs, hist, failedFilings, net, probe, sched,
          budget>>

store == <<fundManagers, securities, filings, holdings, positionChanges>>
runState == <<opts, day, idxRequested, filingIndexes, batches, batchIdx>>

\* const maxConcurrent = options.maxConcurrent || 5
DefaultMaxConcurrent == 5

EmptyResult ==
  [processedFilings |-> 0, newHoldings |-> 0, updatedSecurities |-> 0,
   newFundManagers |-> 0, errors |-> << >>]

NoOpts == [skipExisting |-> FALSE, maxConcurrent |-> 0, specificCIKs |-> << >>]

\* the filer sets a run may be directed at: << >> is "no specificCIKs"
CikChoices == { << >>, << {Cik1} >>, << {Cik0} >> }

Init ==
  /\ fundManagers = << >>
  /\ securities = << >>
  /\ filings = << >>
  /\ holdings = << >>
  /\ positionChanges = << >>
  /\ db = FALSE
  /\ today = 1
  /\ pc = "idle"
  /\ opts = NoOpts
  /\ day = 0
  /\ idxRequested = << >>
  /\ filingIndexes = << >>
  /\ batches = << >>
  /\ batchIdx = 0
  /\ tasks = << >>
  /\ result = EmptyResult
  /\ faults = 0
  /\ runs = 0
  /\ hist = << >>
  /\ failedFilings = 0
  /\ net = NetInit
  /\ probe = NoProbe
  /\ sched = SchedInit
  /\ budget \in Budgets

CanFault == faults < budget.faults

\* the outcomes of one storage call: it succeeds, or (within the budget) fails
StorageOutcomes == {"ok"} \cup (IF CanFault THEN {"error"} ELSE {})

----------------------------------------------------------------------------
(* DataIngestionService: processSingleFiling *)

\* the state of one processSingleFiling call
Task(filing, at) ==
  [filing |-> filing, pc |-> at,
   pathIdx |-> 1, requested |-> << >>,     \* downloadFiling
   answers |-> << >>,                       \* the statuses it was answered
   parsed |-> << >>,                        \* <<parsedFiling>> once parsed
   fmId |-> 0, fmIsNew |-> FALSE,           \* fundManagerResult
   filingId |-> 0,                          \* filingRecord.id
   hIdx |-> 0,                              \* position in holdingsData
   secId |-> 0,                             \* securityResult.id
   newHoldings |-> 0, updatedSecurities |-> 0,
   totalValue |-> 0, toUpdate |-> << >>,    \* updatePortfolioPercentages
   value |-> << >>, reason |-> << >>,       \* how the promise settled
   cause |-> << >>,                         \* the error the catch block caught
   failed |-> FALSE]                        \* a step of this filing failed

\* a call that resolves the fund manager before it downloads anything
startTaskResolveFirst(filing, options) == Task(filing, "fmSelect")

\* a call runs synchronously up to its first await: the skipExisting query,
\* or the first request of downloadFiling
startTask(filing, options) ==
  Task(filing, IF options.skipExisting THEN "skipCheck" ELSE "download")

Settled(t) == t.pc \in {"fulfilled", "rejected"}

\* the catch block of processSingleFiling: the promise rejects with
\* FILING_PROCESSING_ERROR wrapping the message of `error`
rejectTask(t, error) ==
  [t EXCEPT !.pc = "rejected", !.cause = <<error>>, !.failed = TRUE,
            !.reason = <<ApiError(<<"Failed to process filing",
                                    t.filing.accession_number>> \o error.message,
                                  500, "FILING_PROCESSING_ERROR")>>]

fulfilTask(t, nh, us, nfm) ==
  [t EXCEPT !.pc = "fulfilled",
            !.value = <<[newHoldings |-> nh, updatedSecurities |-> us,
                         newFundManagers |-> nfm]>>]

\* a batching that puts every item in one batch
createBatchesWhole(items, batchSize) ==
  IF items = << >> THEN << >> ELSE << items >>

\* createBatches(items, batchSize)
RECURSIVE createBatches(_, _)
createBatches(items, batchSize) ==
  IF items = << >> THEN << >>
  ELSE IF Len(items) <= batchSize THEN << items >>
  ELSE << SubSeq(items, 1, batchSize) >>
         \o createBatches(SubSeq(items, batchSize + 1, Len(items)), batchSize)

\* batch.map(filing => this.processSingleFiling(filing, options))
startBatch(batch, options) ==
  [i \in 1..Len(batch) |-> startTask(batch[i], options)]

----------------------------------------------------------------------------
(* DataIngestionService: ingestFilings up to the first batch *)

\* a catch clause that rethrows instead of recording
ingestCatchRethrow(res, error) == [do |-> "throw", result |-> res]

\* the catch block of ingestFilings: the message of the error is pushed on
\* result.errors and the result is returned
ingestCatch(res, error) ==
  [do |-> "return", result |-> [res EXCEPT !.errors = Append(@, error.message)]]

\* what is remembered of a run when it ends: its options, the exception that
\* ended it (if one did) and where, and the row counts it found
HistEntry(res, raised) ==
  [opts |-> opts, today |-> today, raised |-> raised, stage |-> pc,
   errors |-> Len(res.errors), failed |-> failedFilings,
   faults |-> faults, nFilings |-> Len(filings), nHoldings |-> Len(holdings)]

\* an exception reaches the try block of ingestFilings
RunFails(error) ==
  LET c == ingestCatch(result, error) IN
    /\ result' = c.result
    /\ pc' = IF c.do = "return" THEN "returned" ELSE "thrown"
    /\ runs' = runs + 1
    /\ hist' = Append(hist, HistEntry(c.result, <<error>>))

\* ingestFilings(options) is called; new Date() falls on the day of the last
\* run or on the next one.  With this.db set the first index request goes out.
StartRun ==
  /\ pc \in {"idle", "returned"}
  /\ runs < budget.runs
  /\ \E skip \in BOOLEAN, mc \in 1..budget.concurrent, ciks \in CikChoices,
        d \in {today, today + 1} :
       /\ opts' = [skipExisting |-> skip, maxConcurrent |-> mc,
                   specificCIKs |-> ciks]
       /\ today' = d
  /\ result' = EmptyResult
  /\ pc' = IF db THEN "enumerate" ELSE "connect"
  /\ day' = 1
  /\ idxRequested' = << >>
  /\ filingIndexes' = << >>
  /\ batches' = << >>
  /\ batchIdx' = 0
  /\ tasks' = << >>
  /\ failedFilings' = 0
  /\ UNCHANGED <<store, db, faults, runs, hist, budget, net, probe, sched>>

\* if (!this.db) await this.initialize()
Connect ==
  /\ pc = "connect"
  /\ \E o \in StorageOutcomes :
       IF o = "ok"
         THEN /\ db' = TRUE
              /\ pc' = "enumerate"
              /\ UNCHANGED <<faults, result, runs, hist>>
         ELSE /\ faults' = faults + 1
              /\ RunFails(StorageError(<<"connection refused">>))
              /\ UNCHANGED db
  /\ UNCHANGED <<store, today, runState, tasks, failedFilings, budget, net, probe, sched>>

\* options.specificCIKs ? filingIndexes.filter(...) : filingIndexes
filterByCIK(entries, options) ==
  IF options.specificCIKs = << >> THEN entries
  ELSE SelectSeq(entries, LAMBDA f : f.cik \in options.specificCIKs[1])

effectiveMaxConcurrent(options) ==
  IF options.maxConcurrent = 0 THEN DefaultMaxConcurrent ELSE options.maxConcurrent

\* the source answers the index request of get13FFilings for currentDate;
\* after the last day the candidates are filtered and batched and the tasks
\* of the first batch start
GetDailyIndex ==
  /\ pc = "enumerate"
  /\ \E status \in Statuses :
       /\ status = 200 \/ CanFault
       /\ faults' = IF status = 200 THEN faults ELSE faults + 1
       /\ idxRequested' = Append(idxRequested, indexUrl(day))
       /\ LET r == getDailyIndex(status, day) IN
            IF ~r.ok
              THEN /\ RunFails(r.error)
                   /\ UNCHANGED <<day, filingIndexes, batches, batchIdx, tasks>>
            ELSE LET all == filingIndexes \o filter13F(r.value) IN
              /\ filingIndexes' = all
              /\ IF day < NumDays
                   THEN /\ day' = day + 1
                        /\ UNCHANGED <<pc, batches, batchIdx, tasks>>
                   ELSE LET bs == createBatches(filterByCIK(all, opts),
                                                effectiveMaxConcurrent(opts)) IN
                        /\ batches' = bs
                        /\ UNCHANGED day
                        /\ IF bs = << >>
                             THEN /\ pc' = "positions"
                                  /\ UNCHANGED <<batchIdx, tasks>>
                             ELSE /\ pc' = "batch"
                                  /\ batchIdx' = 1
                                  /\ tasks' = startBatch(bs[1], opts)
              /\ UNCHANGED <<result, runs, hist>>
  /\ UNCHANGED <<store, db, today, opts, failedFilings, budget, net, probe, sched>>

----------------------------------------------------------------------------
(* DataIngestionService: the steps of processSingleFiling *)

SetTask(i, t) == tasks' = [tasks EXCEPT ![i] = t]

\* a storage call of task i fails
StorageFault(i) ==
  /\ faults' = faults + 1
  /\ SetTask(i, rejectTask(tasks[i], StorageError(<<"storage error">>)))

\* the skipExisting query: a Filing whose fundManagerId is parseInt(cik) and
\* whose filingDate is the date filed
existingFiling(filing) ==
  SelectSeq(filings, LAMBDA f : /\ f.fundManagerId = ParseInt(filing.cik)
                                /\ f.filingDate = filing.date_filed)

SkipExistingCheck(i) ==
  /\ pc = "batch" /\ tasks[i].pc = "skipCheck"
  /\ \E o \in StorageOutcomes :
       IF o = "error" THEN StorageFault(i)
       ELSE /\ IF Len(existingFiling(tasks[i].filing)) > 0
                 THEN SetTask(i, fulfilTask(tasks[i], 0, 0, 0))
                 ELSE SetTask(i, [tasks[i] EXCEPT !.pc = "download"])
            /\ UNCHANGED faults
  /\ UNCHANGED <<store, db, today, pc, runState, result, runs, hist, failedFilings, budget, net, probe, sched>>

\* the bodies the source may serve for a filing: its document, or (as an
\* environment failure) a body in no known dialect
Bodies(acc) == {Document(acc)} \cup (IF CanFault THEN {GarbledDoc} ELSE {})

\* the source answers the request of downloadFiling for the current path; a
\* body that is returned is parsed at once
DownloadFiling(i) ==
  /\ pc = "batch" /\ tasks[i].pc = "download"
  /\ LET t == tasks[i]
         acc == t.filing.accession_number
     IN \E status \in Statuses, data \in Bodies(acc) :
       /\ status = 200 \/ CanFault
       /\ status # 200 => data = Document(acc)
       /\ faults' = IF status = 200 /\ data = Document(acc) THEN faults
                    ELSE faults + 1
       /\ LET step == downloadFilingStep(status, data, t.pathIdx, acc)
              t1 == [t EXCEPT !.requested = Append(@, possiblePaths(acc)[t.pathIdx]),
                              !.answers = Append(@, status)]
          IN CASE step.do = "continue" ->
                    SetTask(i, [t1 EXCEPT !.pathIdx = @ + 1])
               [] step.do = "throw" ->
                    SetTask(i, rejectTask(t1, step.error))
               [] OTHER ->
                    LET p == parseFiling(step.value, today) IN
                      IF p.ok
                        THEN SetTask(i, [t1 EXCEPT !.pc = "fmSelect",
                                                   !.parsed = <<p.value>>])
                        ELSE SetTask(i, rejectTask(t1, p.error))
  /\ UNCHANGED <<store, db, today, pc, runState, result, runs, hist, failedFilings, budget, net, probe, sched>>

\* a resolution that overwrites the stored name with the name of the filing
EnsureFundManagerUpsert(i) ==
  /\ pc = "batch" /\ tasks[i].pc = "fmSelect"
  /\ LET t == tasks[i]
         existing == {k \in DOMAIN fundManagers :
                        fundManagers[k].cik = t.filing.cik}
     IN IF existing # {}
          THEN LET k == CHOOSE x \in existing : TRUE IN
               /\ fundManagers' = [fundManagers EXCEPT
                                     ![k].name = t.filing.company_name]
               /\ SetTask(i, [t EXCEPT !.pc = "createFiling", !.fmId = k,
                                       !.fmIsNew = FALSE])
          ELSE /\ SetTask(i, [t EXCEPT !.pc = "fmInsert"])
               /\ UNCHANGED fundManagers
  /\ UNCHANGED <<securities, filings, holdings, positionChanges, faults, db,
                 today, pc, runState, result, runs, hist, failedFilings, budget,
                 net, probe, sched>>

\* ensureFundManager, the select by cik
EnsureFundManagerSelect(i) ==
  /\ pc = "batch" /\ tasks[i].pc = "fmSelect"
  /\ \E o \in StorageOutcomes :
       IF o = "error" THEN StorageFault(i)
       ELSE LET t == tasks[i]
                existing == {k \in DOMAIN fundManagers :
                               fundManagers[k].cik = t.filing.cik}
            IN /\ IF existing # {}
                    THEN SetTask(i, [t EXCEPT !.pc = "createFiling",
                                              !.fmId = CHOOSE k \in existing : TRUE,
                                              !.fmIsNew = FALSE])
                    ELSE SetTask(i, [t EXCEPT !.pc = "fmInsert"])
               /\ UNCHANGED faults
  /\ UNCHANGED <<store, db, today, pc, runState, result, runs, hist, failedFilings, budget, net, probe, sched>>

\* a column without a constraint: no insert is rejected
violatesUniqueNever(table, column, value) == FALSE

\* the UNIQUE constraint of a column (fund_managers.cik, securities.cusip):
\* the insert of a row with `value` in it is rejected when a row has it
violatesUnique(table, column, value) ==
  \E k \in DOMAIN table : table[k][column] = value

\* ensureFundManager, the insert; fund_managers.cik is UNIQUE
EnsureFundManagerInsert(i) ==
  /\ pc = "batch" /\ tasks[i].pc = "fmInsert"
  /\ \E o \in StorageOutcomes :
       LET t == tasks[i] IN
       IF o = "error"
         THEN StorageFault(i) /\ UNCHANGED fundManagers
       ELSE IF violatesUnique(fundManagers, "cik", t.filing.cik)
         THEN /\ SetTask(i, rejectTask(t, StorageError(<<"duplicate key", "cik">>)))
              /\ UNCHANGED <<fundManagers, faults>>
       ELSE /\ fundManagers' = Append(fundManagers,
                                      [cik |-> t.filing.cik,
                                       name |-> t.filing.company_name])
            /\ SetTask(i, [t EXCEPT !.pc = "createFiling",
                                    !.fmId = Len(fundManagers) + 1,
                                    !.fmIsNew = TRUE])
            /\ UNCHANGED faults
  /\ UNCHANGED <<securities, filings, holdings, positionChanges, db, today, pc,
                 runState, result, runs, hist, failedFilings, budget, net, probe, sched>>

\* the first index >= from of a holding processHoldings does not skip as an
\* invalid CUSIP; Len + 1 when there is none
RECURSIVE nextValid(_, _)
nextValid(hs, from) ==
  IF from > Len(hs) THEN from
  ELSE IF isValidCUSIP(hs[from].cusip) THEN from
  ELSE nextValid(hs, from + 1)

\* the loop of processHoldings moves to the holding at or after `from`, or,
\* past the last one, to updatePortfolioPercentages
toHolding(t, from) ==
  LET k == nextValid(t.parsed[1].informationTable, from) IN
    IF k > Len(t.parsed[1].informationTable)
      THEN [t EXCEPT !.pc = "pctSum", !.hIdx = k]
      ELSE [t EXCEPT !.pc = "secSelect", !.hIdx = k]

\* createFilingRecord
CreateFilingRecord(i) ==
  /\ pc = "batch" /\ tasks[i].pc = "createFiling"
  /\ \E o \in StorageOutcomes :
       LET t == tasks[i] IN
       IF o = "error"
         THEN StorageFault(i) /\ UNCHANGED filings
       ELSE /\ filings' = Append(filings,
                 [fundManagerId |-> t.fmId,
                  filingDate |-> t.filing.date_filed,
                  periodEndDate |-> t.parsed[1].coverPage.reportDate,
                  formType |-> t.filing.form_type,
                  totalValue |-> t.parsed[1].summaryPage.tableValueTotal * 100,
                  totalPositions |-> t.parsed[1].summaryPage.tableEntryTotal])
            /\ SetTask(i, toHolding([t EXCEPT !.filingId = Len(filings) + 1], 1))
            /\ UNCHANGED faults
  /\ UNCHANGED <<fundManagers, securities, holdings, positionChanges, db, today,
                 pc, runState, result, runs, hist, failedFilings, budget, net, probe, sched>>

\* the catch block inside the loop of processHoldings: the error is logged
\* and the loop goes on with the next holding
holdingCatch(t) == toHolding([t EXCEPT !.failed = TRUE], t.hIdx + 1)

\* a storage call made for one holding fails
HoldingFault(i) ==
  /\ faults' = faults + 1
  /\ SetTask(i, holdingCatch(tasks[i]))

\* ensureSecurity, the select by cusip
EnsureSecuritySelect(i) ==
  /\ pc = "batch" /\ tasks[i].pc = "secSelect"
  /\ \E o \in StorageOutcomes :
       IF o = "error" THEN HoldingFault(i)
       ELSE LET t == tasks[i]
                h == t.parsed[1].informationTable[t.hIdx]
                existing == {k \in DOMAIN securities : securities[k].cusip = h.cusip}
            IN /\ IF existing # {}
                    THEN SetTask(i, [t EXCEPT !.pc = "holdingInsert",
                                              !.secId = CHOOSE k \in existing : TRUE])
                    ELSE SetTask(i, [t EXCEPT !.pc = "secInsert"])
               /\ UNCHANGED faults
  /\ UNCHANGED <<store, db, today, pc, runState, result, runs, hist, failedFilings, budget, net, probe, sched>>

\* ensureSecurity, the insert; securities.cusip is UNIQUE
EnsureSecurityInsert(i) ==
  /\ pc = "batch" /\ tasks[i].pc = "secInsert"
  /\ \E o \in StorageOutcomes :
       LET t == tasks[i]
           h == t.parsed[1].informationTable[t.hIdx]
       IN
       IF o = "error"
         THEN HoldingFault(i) /\ UNCHANGED securities
       ELSE IF violatesUnique(securities, "cusip", h.cusip)
         THEN /\ SetTask(i, holdingCatch(t))
              /\ UNCHANGED <<securities, faults>>
       ELSE /\ securities' = Append(securities,
                                    [cusip |-> h.cusip,
                                     companyName |-> h.nameOfIssuer,
                                     securityType |-> h.titleOfClass])
            /\ SetTask(i, [t EXCEPT !.pc = "holdingInsert",
                                    !.secId = Len(securities) + 1,
                                    !.updatedSecurities = @ + 1])
            /\ UNCHANGED faults
  /\ UNCHANGED <<fundManagers, filings, holdings, positionChanges, db, today, pc,
                 runState, result, runs, hist, failedFilings, budget, net, probe, sched>>

\* a holding row that takes the filer id read as a number for the fund manager
holdingRowByCik(t, h) ==
  [filingId |-> t.filingId, securityId |-> t.secId,
   fundManagerId |-> ParseInt(t.filing.cik),
   periodEndDate |-> t.parsed[1].coverPage.reportDate,
   sharesHeld |-> h.sshPrnamt,
   marketValue |-> h.value * 100,
   percentOfPortfolio |-> << >>,
   investmentDiscretion |-> h.investmentDiscretion]

\* a holding row that keeps the parser's amount as it is
holdingRowUnscaled(t, h) ==
  [filingId |-> t.filingId, securityId |-> t.secId,
   fundManagerId |-> t.fmId,
   periodEndDate |-> t.parsed[1].coverPage.reportDate,
   sharesHeld |-> h.sshPrnamt,
   marketValue |-> h.value,
   percentOfPortfolio |-> << >>,
   investmentDiscretion |-> h.investmentDiscretion]

\* the holding row processHoldings inserts
holdingRow(t, h) ==
  [filingId |-> t.filingId, securityId |-> t.secId,
   fundManagerId |-> t.fmId,
   periodEndDate |-> t.parsed[1].coverPage.reportDate,
   sharesHeld |-> h.sshPrnamt,
   marketValue |-> h.value * 100,
   percentOfPortfolio |-> << >>,
   investmentDiscretion |-> h.investmentDiscretion]

\* this.db.insert(holdings).  The store is taken to accept a row it is given
\* unless the call fails; the width of a text column is not modelled (the
\* schema declares voting_authority varchar(20) and the row carries
\* JSON.stringify(holding.votingAuthority), which is longer).
InsertHolding(i) ==
  /\ pc = "batch" /\ tasks[i].pc = "holdingInsert"
  /\ \E o \in StorageOutcomes :
       LET t == tasks[i] IN
       IF o = "error"
         THEN HoldingFault(i) /\ UNCHANGED holdings
       ELSE /\ holdings' = Append(holdings,
                                  holdingRow(t, t.parsed[1].informationTable[t.hIdx]))
            /\ SetTask(i, toHolding([t EXCEPT !.newHoldings = @ + 1], t.hIdx + 1))
            /\ UNCHANGED faults
  /\ UNCHANGED <<fundManagers, securities, filings, positionChanges, db, today,
                 pc, runState, result, runs, hist, failedFilings, budget, net, probe, sched>>

----------------------------------------------------------------------------
(* DataIngestionService: updatePortfolioPercentages *)

\* the ids of the holdings of a filing, ascending
RECURSIVE holdingsOf(_, _)
holdingsOf(filingId, from) ==
  IF from > Len(holdings) THEN << >>
  ELSE (IF holdings[from].filingId = filingId THEN <<from>> ELSE << >>)
         \o holdingsOf(filingId, from + 1)

\* SUM(market_value) over the holdings of a filing; no rows give 0
sumMarketValue(filingId) ==
  LET ids == holdingsOf(filingId, 1) IN
    SumSeq([k \in 1..Len(ids) |-> holdings[ids[k]].marketValue])

\* a share of the total as a fraction, not as a percentage
percentageFraction(marketValue, totalValue) ==
  RoundDiv(marketValue * 100, totalValue)

\* Number(marketValue * 100n) / Number(totalValue) as percent_of_portfolio
\* numeric(5, 2) keeps it: in hundredths of a percent, rounded
percentage(marketValue, totalValue) ==
  RoundDiv(marketValue * 100 * 100, totalValue)

\* processSingleFiling returns its counts
finishTask(t) ==
  fulfilTask(t, t.newHoldings, t.updatedSecurities, IF t.fmIsNew THEN 1 ELSE 0)

\* the SUM query; with a total of 0 nothing is updated
UpdatePercentagesSum(i) ==
  /\ pc = "batch" /\ tasks[i].pc = "pctSum"
  /\ \E o \in StorageOutcomes :
       IF o = "error" THEN StorageFault(i)
       ELSE LET t == tasks[i]
                total == sumMarketValue(t.filingId)
            IN /\ IF total > 0
                    THEN SetTask(i, [t EXCEPT !.pc = "pctSelect",
                                              !.totalValue = total])
                    ELSE SetTask(i, finishTask(t))
               /\ UNCHANGED faults
  /\ UNCHANGED <<store, db, today, pc, runState, result, runs, hist, failedFilings, budget, net, probe, sched>>

\* the select of holdingsToUpdate
UpdatePercentagesSelect(i) ==
  /\ pc = "batch" /\ tasks[i].pc = "pctSelect"
  /\ \E o \in StorageOutcomes :
       IF o = "error" THEN StorageFault(i)
       ELSE LET t == tasks[i]
                ids == holdingsOf(t.filingId, 1)
            IN /\ IF ids = << >>
                    THEN SetTask(i, finishTask(t))
                    ELSE SetTask(i, [t EXCEPT !.pc = "pctUpdate",
                                              !.toUpdate = ids])
               /\ UNCHANGED faults
  /\ UNCHANGED <<store, db, today, pc, runState, result, runs, hist, failedFilings, budget, net, probe, sched>>

\* the update of one holding of holdingsToUpdate
UpdatePercentagesRow(i) ==
  /\ pc = "batch" /\ tasks[i].pc = "pctUpdate"
  /\ \E o \in StorageOutcomes :
       LET t == tasks[i]
           id == Head(t.toUpdate)
       IN
       IF o = "error"
         THEN StorageFault(i) /\ UNCHANGED holdings
       ELSE /\ holdings' = [holdings EXCEPT ![id].percentOfPortfolio =
                              <<percentage(holdings[id].marketValue, t.totalValue)>>]
            /\ IF Tail(t.toUpdate) = << >>
                 THEN SetTask(i, finishTask(t))
                 ELSE SetTask(i, [t EXCEPT !.toUpdate = Tail(@)])
            /\ UNCHANGED faults
  /\ UNCHANGED <<fundManagers, securities, filings, positionChanges, db, today,
                 pc, runState, result, runs, hist, failedFilings, budget, net, probe, sched>>

----------------------------------------------------------------------------
(* DataIngestionService: the batch loop *)

\* a fold that counts the fulfilled results and drops the rejected ones
accumulateFulfilledOnly(res, ts) ==
  [res EXCEPT !.processedFilings =
     @ + Cardinality({i \in DOMAIN ts : ts[i].pc = "fulfilled"})]

\* the loop over the results of Promise.allSettled
RECURSIVE accumulate(_, _)
accumulate(res, ts) ==
  IF ts = << >> THEN res
  ELSE LET t == Head(ts) IN
    accumulate(
      IF t.pc = "fulfilled"
        THEN [res EXCEPT !.processedFilings = @ + 1,
                         !.newHoldings = @ + t.value[1].newHoldings,
                         !.updatedSecurities = @ + t.value[1].updatedSecurities,
                         !.newFundManagers = @ + t.value[1].newFundManagers]
        ELSE [res EXCEPT !.errors = Append(@, t.reason[1].message)],
      Tail(ts))

\* a loop that moves on as soon as one task of the batch has settled
AwaitBatchEager ==
  /\ pc = "batch"
  /\ \E i \in DOMAIN tasks : Settled(tasks[i])
  /\ result' = accumulate(result, SelectSeq(tasks, Settled))
  /\ IF batchIdx < Len(batches)
       THEN /\ batchIdx' = batchIdx + 1
            /\ tasks' = startBatch(batches[batchIdx + 1], opts)
            /\ UNCHANGED pc
       ELSE /\ pc' = "positions"
            /\ tasks' = << >>
            /\ UNCHANGED batchIdx
  /\ UNCHANGED <<store, db, today, opts, day, idxRequested, filingIndexes,
                 batches, faults, runs, hist, failedFilings, budget, net, probe, sched>>

\* Promise.allSettled(batchPromises) resolves once every task has settled;
\* the results are folded into the result and the next batch starts, or,
\* after the last batch, calculatePositionChanges is called
AwaitBatch ==
  /\ pc = "batch"
  /\ \A i \in DOMAIN tasks : Settled(tasks[i])
  /\ result' = accumulate(result, tasks)
  /\ IF batchIdx < Len(batches)
       THEN /\ batchIdx' = batchIdx + 1
            /\ tasks' = startBatch(batches[batchIdx + 1], opts)
            /\ UNCHANGED pc
       ELSE /\ pc' = "positions"
            /\ tasks' = << >>
            /\ UNCHANGED batchIdx
  /\ UNCHANGED <<store, db, today, opts, day, idxRequested, filingIndexes,
                 batches, faults, runs, hist, budget, net, probe, sched>>
  /\ failedFilings' = failedFilings + Cardinality({i \in DOMAIN tasks : tasks[i].failed})

----------------------------------------------------------------------------
(* DataIngestionService: calculatePositionChanges *)

SignedRoundDiv(n, d) == IF n >= 0 THEN RoundDiv(n, d) ELSE 0 - RoundDiv(0 - n, d)

\* calculatePercentageChange as percent_change numeric(8, 2) keeps it, in
\* hundredths of a percent
calculatePercentageChange(oldNum, newNum) ==
  IF oldNum = 0 THEN (IF newNum > 0 THEN 100 * 100 ELSE 0)
  ELSE SignedRoundDiv((newNum - oldNum) * 100 * 100, oldNum)

\* a row whose changeType follows the change of value, not of shares
positionChangeByValue(current, previous) ==
  LET valueChange == current.marketValue - previous.marketValue IN
  [fundManagerId |-> current.fundManagerId,
   securityId |-> current.securityId,
   fromPeriod |-> previous.periodEndDate,
   toPeriod |-> current.periodEndDate,
   sharesChange |-> current.sharesHeld - previous.sharesHeld,
   valueChange |-> valueChange,
   percentChange |-> calculatePercentageChange(previous.marketValue,
                                               current.marketValue),
   changeType |-> IF valueChange > 0 THEN "INCREASED"
                  ELSE IF valueChange < 0 THEN "DECREASED"
                  ELSE "UNCHANGED"]

\* the row inserted for a group whose two first holdings are current, previous
positionChange(current, previous) ==
  LET sharesChange == current.sharesHeld - previous.sharesHeld IN
  [fundManagerId |-> current.fundManagerId,
   securityId |-> current.securityId,
   fromPeriod |-> previous.periodEndDate,
   toPeriod |-> current.periodEndDate,
   sharesChange |-> sharesChange,
   valueChange |-> current.marketValue - previous.marketValue,
   percentChange |-> calculatePercentageChange(previous.marketValue,
                                               current.marketValue),
   changeType |-> IF sharesChange > 0 THEN "INCREASED"
                  ELSE IF sharesChange < 0 THEN "DECREASED"
                  ELSE "UNCHANGED"]

groupKey(h) == <<h.fundManagerId, h.securityId>>

groupMembers(k) == {i \in DOMAIN holdings : groupKey(holdings[i]) = k}

\* the groups with at least two holdings
changedGroups ==
  {k \in {groupKey(holdings[i]) : i \in DOMAIN holdings} :
     Cardinality(groupMembers(k)) >= 2}

\* the (current, previous) pairs a group can yield: the query orders by
\* periodEndDate descending and leaves the order of equal dates open
topPairs(k) ==
  {<<c, p>> \in groupMembers(k) \X groupMembers(k) :
     /\ c # p
     /\ \A m \in groupMembers(k) :
          holdings[c].periodEndDate >= holdings[m].periodEndDate
     /\ \A m \in groupMembers(k) \ {c} :
          holdings[p].periodEndDate >= holdings[m].periodEndDate}

KeyLess(a, b) == a[1] < b[1] \/ (a[1] = b[1] /\ a[2] < b[2])

RECURSIVE KeySeq(_)
\* the keys of a set in ascending order
KeySeq(S) ==
  IF S = {} THEN << >>
  ELSE LET k == CHOOSE x \in S : \A y \in S \ {x} : KeyLess(x, y)
       IN <<k>> \o KeySeq(S \ {k})

RECURSIVE changeRows(_)
\* the sequences of rows calculatePositionChanges can insert for the groups ks
changeRows(ks) ==
  IF ks = << >> THEN { << >> }
  ELSE {<<positionChange(holdings[pr[1]], holdings[pr[2]])>> \o rest :
          pr \in topPairs(Head(ks)), rest \in changeRows(Tail(ks))}

\* the select and the inserts of calculatePositionChanges, then the return of
\* ingestFilings; a storage failure after n inserts goes to the catch block
CalculatePositionChanges ==
  /\ pc = "positions"
  /\ \E rows \in changeRows(KeySeq(changedGroups)), o \in StorageOutcomes :
       IF o = "ok"
         THEN /\ positionChanges' = positionChanges \o rows
              /\ pc' = "returned"
              /\ runs' = runs + 1
              /\ hist' = Append(hist, HistEntry(result, << >>))
              /\ UNCHANGED <<result, faults>>
         ELSE \E n \in 0..Len(rows) :
              /\ positionChanges' = positionChanges \o SubSeq(rows, 1, n)
              /\ faults' = faults + 1
              /\ RunFails(StorageError(<<"storage error">>))
  /\ UNCHANGED <<fundManagers, securities, filings, holdings, db, today,
                 runState, tasks, failedFilings, budget, net, probe, sched>>

----------------------------------------------------------------------------
(* Specification *)

Next ==
  \/ StartRun
  \/ Connect
  \/ GetDailyIndex
  \/ \E i \in DOMAIN tasks : SkipExistingCheck(i)
  \/ \E i \in DOMAIN tasks : DownloadFiling(i)
  \/ \E i \in DOMAIN tasks : EnsureFundManagerSelect(i)
  \/ \E i \in DOMAIN tasks : EnsureFundManagerInsert(i)
  \/ \E i \in DOMAIN tasks : CreateFilingRecord(i)
  \/ \E i \in DOMAIN tasks : EnsureSecuritySelect(i)
  \/ \E i \in DOMAIN tasks : EnsureSecurityInsert(i)
  \/ \E i \in DOMAIN tasks : InsertHolding(i)
  \/ \E i \in DOMAIN tasks : UpdatePercentagesSum(i)
  \/ \E i \in DOMAIN tasks : UpdatePercentagesSelect(i)
  \/ \E i \in DOMAIN tasks : UpdatePercentagesRow(i)
  \/ AwaitBatch
  \/ CalculatePositionChanges

Spec == Init /\ [][Next]_vars

----------------------------------------------------------------------------
(* SecEdgarClient: the request interceptor, on its own clock *)

mainVars == <<fundManagers, securities, filings, holdings, positionChanges, db,
              today, pc, opts, day, idxRequested, filingIndexes, batches,
              batchIdx, tasks, result, faults, runs, hist, failedFilings, probe,
              sched, budget>>

\* the time the request interceptor resolves for a request entering it at
\* `now`: await this.delay(this.rateLimitDelay)
interceptorDue(now) == now + rateLimitDelay

\* a caller calls this.client.get: the request interceptor starts its timer
Issue(c) ==
  /\ net.at[c] = "idle"
  /\ net' = [net EXCEPT !.at[c] = "delay", !.due[c] = interceptorDue(net.now)]
  /\ UNCHANGED mainVars

\* the timer of the interceptor fires (at its due time or later) and the
\* request is dispatched to the source
Dispatch(c) ==
  /\ net.at[c] = "delay"
  /\ net.now >= net.due[c]
  /\ net' = [net EXCEPT !.at[c] = "sent",
                        !.dispatched = IF @ = << >> THEN <<net.now>>
                                       ELSE <<@[Len(@)], net.now>>]
  /\ UNCHANGED mainVars

\* the source answers; the caller may issue its next request
Respond(c) ==
  /\ net.at[c] = "sent"
  /\ net' = [net EXCEPT !.at[c] = "idle"]
  /\ UNCHANGED mainVars

\* time passes, half a delay at a time
Tick ==
  /\ net.now + (rateLimitDelay \div 2) <= MaxTime
  /\ net' = [net EXCEPT !.now = @ + (rateLimitDelay \div 2)]
  /\ UNCHANGED mainVars

InitRate == Init /\ budget.runs = MaxRuns

NextRate ==
  \/ \E c \in Callers : Issue(c)
  \/ \E c \in Callers : Dispatch(c)
  \/ \E c \in Callers : Respond(c)
  \/ Tick

SpecRate == InitRate /\ [][NextRate]_vars

----------------------------------------------------------------------------
(* The pure functions of the parser and of the orchestrator, called on drawn
   arguments *)

\* a persisted holding of fund 1 in security 1
probeHolding(period, shares, value) ==
  [filingId |-> period + 1, securityId |-> 1, fundManagerId |-> 1,
   periodEndDate |-> period, sharesHeld |-> shares, marketValue |-> value,
   percentOfPortfolio |-> << >>, investmentDiscretion |-> "SOLE"]

\* processHoldings at the insert of a holding of the parsed positions hs
probeTask(hs) ==
  [Task(IndexEntry("a1", Cik1, "Alpha", "13F-HR", 1), "holdingInsert")
     EXCEPT !.parsed = <<Parsed([reportDate |-> 0], hs)>>,
            !.fmId = 1, !.filingId = 1, !.secId = 1, !.hIdx = 1]

\* the identifier strings a position may carry, valid and invalid
ProbeCusips == DOMAIN CusipChars

\* declared values, in thousands
DeclaredValues == (0..MaxDeclared) \cup {12345}

\* the positions a document may state
ProbeRows == {Row(c, "ISSUER", 1, 7) : c \in ProbeCusips}

\* the value of a call: what the function returns for the drawn arguments
Compute(p) ==
  CASE p.op = "change" ->
         \* calculatePositionChanges for shares 1,000,000 -> 1,500,000
         positionChange(probeHolding(1, 1500000, p.input[2]),
                        probeHolding(0, 1000000, p.input[1]))
    [] p.op = "holding" ->
         \* a position through the parser and the insert of processHoldings
         LET hs == IF p.input[1] = "xml"
                     THEN parseHoldingEntry(XmlNode(p.input[2]))
                     ELSE parseTextTableRow(p.input[2])
         IN [parsed |-> hs,
             persisted |-> [k \in DOMAIN hs |-> holdingRow(probeTask(hs), hs[k])]]
    [] p.op \in {"filing", "detect"} -> parseFiling(p.input[1], p.input[2])
    [] OTHER ->
         \* the cover page the path of the dialect extracts
         IF p.input[1].xml THEN extractCoverPageFromXml(p.input[1], p.input[2])
         ELSE extractCoverPageFromText(p.input[1], p.input[2])

\* the arguments of a call are drawn
DrawProbe ==
  /\ probe = NoProbe
  /\ \/ \E pv \in 0..MaxMarketValue, cv \in 0..MaxMarketValue :
          probe' = [op |-> "change", input |-> <<pv, cv>>, output |-> << >>]
     \/ \E path \in {"xml", "text"}, c \in {"037833100", "059428107"},
           v \in DeclaredValues :
          probe' = [op |-> "holding", input |-> <<path, Row(c, "ISSUER", v, 7)>>,
                    output |-> << >>]
     \/ \E n \in 1..MaxNodes, now \in 1..2 : \E rows \in [1..n -> ProbeRows] :
          probe' = [op |-> "filing",
                    input |-> <<Doc(TRUE, FALSE, FALSE, TRUE, <<0>>, rows), now>>,
                    output |-> << >>]
     \/ \E xml \in BOOLEAN, html \in BOOLEAN, text \in BOOLEAN,
           table \in BOOLEAN, now \in 1..2 :
          probe' = [op |-> "detect",
                    input |-> <<Doc(xml, html, text, table, <<0>>,
                                    <<Row("037833100", "ISSUER", 1, 7)>>), now>>,
                    output |-> << >>]
     \/ \E dialect \in {"xml", "html", "text"}, q \in 0..1, now \in 1..2 :
          probe' = [op |-> "cover",
                    input |-> <<Doc(dialect = "xml", dialect = "html",
                                    dialect = "text", TRUE, <<q>>, << >>), now>>,
                    output |-> << >>]
  /\ UNCHANGED <<store, db, today, pc, runState, tasks, result, faults, runs,
                 hist, failedFilings, net, sched, budget>>

\* the function is called
ApplyProbe ==
  /\ probe.op # "none"
  /\ probe.output = << >>
  /\ probe' = [probe EXCEPT !.output = <<Compute(probe)>>]
  /\ UNCHANGED <<store, db, today, pc, runState, tasks, result, faults, runs,
                 hist, failedFilings, net, sched, budget>>

InitPure == Init /\ budget.runs = MaxRuns

NextPure == DrawProbe \/ ApplyProbe

SpecPure == InitPure /\ [][NextPure]_vars

\* the call under examination has returned
Applied(op) == probe.op = op /\ probe.output # << >>

----------------------------------------------------------------------------
(* IngestionScheduler: the isRunning guard of runDailyIngestion *)

schedFrame == <<store, db, today, pc, runState, tasks, result, faults, runs,
                hist, failedFilings, net, probe, budget>>

\* the callbacks awaiting ingestFilings
dailyRunsInFlight == {c \in Triggers : sched.at[c] = "ingestFilings"}

\* a cron callback (or the run command) calls runDailyIngestion: with
\* isRunning set it logs and returns; otherwise it sets isRunning and runs up
\* to its await of ingestFilings.  Test and set are one synchronous stretch.
Trigger(c) ==
  /\ sched.at[c] = "idle"
  /\ sched.started + sched.skipped < MaxFirings
  /\ IF sched.isRunning
       THEN sched' = [sched EXCEPT !.skipped = @ + 1]
       ELSE sched' = [sched EXCEPT !.isRunning = TRUE,
                                   !.at[c] = "ingestFilings",
                                   !.started = @ + 1]
  /\ UNCHANGED schedFrame

\* a guard that is released only when the run returned its result
releaseOnReturn(outcome) == outcome # "returned"

\* isRunning after the finally block, whatever way the try block was left
finallyBlock(outcome) == FALSE

\* the await of ingestFilings settles: the result is logged, or the catch
\* block logs the error; then the finally block runs
IngestionSettles(c) ==
  /\ sched.at[c] = "ingestFilings"
  /\ \E outcome \in {"returned", "thrown"} :
       sched' = [sched EXCEPT !.isRunning = finallyBlock(outcome),
                              !.at[c] = "idle",
                              !.ended = Append(@, outcome)]
  /\ UNCHANGED schedFrame

InitSched == Init /\ budget.runs = MaxRuns

NextSched ==
  \/ \E c \in Triggers : Trigger(c)
  \/ \E c \in Triggers : IngestionSettles(c)

SpecSched == InitSched /\ [][NextSched]_vars

----------------------------------------------------------------------------
(* Claims *)

LastRun == hist[Len(hist)]

InFlight == {i \in DOMAIN tasks : ~Settled(tasks[i])}

NoDuplicates(s) == \A i, j \in DOMAIN s : i # j => s[i] # s[j]

Abs(x) == IF x >= 0 THEN x ELSE 0 - x

\* the candidate filings of the current run
Candidates == filterByCIK(filingIndexes, opts)

\* the sum of the persisted percentages (hundredths) of the holdings `ids`
percentSum(ids) ==
  SumSeq([k \in 1..Len(ids) |->
            IF holdings[ids[k]].percentOfPortfolio = << >> THEN 0
            ELSE holdings[ids[k]].percentOfPortfolio[1]])

\* the tasks of the current batch whose filing was processed to the end
CompletedTasks == {i \in DOMAIN tasks : tasks[i].pc = "fulfilled" /\ tasks[i].filingId # 0}

\* C1: ingestFilings never throws to its caller: a run never ends in an
\* exception, it is at one of its steps or has returned its result, and an
\* exception that ended the run (storage connection, index enumeration or
\* position-change recomputation) is the last message of result.errors.
C1_RunAlwaysReturns ==
  /\ pc # "thrown"
  /\ pc \in {"idle", "connect", "enumerate", "batch", "positions", "returned"}
  /\ pc = "returned" =>
       (LastRun.raised # << >> =>
          /\ result.errors # << >>
          /\ result.errors[Len(result.errors)] = LastRun.raised[1].message
          /\ LastRun.raised[1].message # << >>)

\* C1 witness: a run whose position-change recomputation failed, after filings
\* were processed, has returned
C1_Witness ==
  /\ pc = "returned"
  /\ LastRun.stage = "positions"
  /\ LastRun.raised # << >>
  /\ result.processedFilings > 0

\* C2: two consecutive runs with skipExisting over the same window and filer
\* set, both without any failure, leave the Filing and Holding counts after
\* the second run equal to those after the first.
C2_Idempotent ==
  (pc = "returned" /\ Len(hist) >= 2) =>
    LET a == hist[Len(hist) - 1]
        b == hist[Len(hist)]
    IN (/\ a.opts.skipExisting /\ b.opts.skipExisting
        /\ a.opts.specificCIKs = b.opts.specificCIKs
        /\ a.errors = 0 /\ b.errors = 0
        /\ a.failed = 0 /\ b.failed = 0)
       => (b.nFilings = a.nFilings /\ b.nHoldings = a.nHoldings)

\* C3: at no instant of a run are more than maxConcurrent filing-processing
\* tasks in flight.
C3_BoundedConcurrency == Cardinality(InFlight) <= effectiveMaxConcurrent(opts)

\* C3 witness: a run of several batches with maxConcurrent >= 2 has exactly
\* maxConcurrent tasks in flight
C3_Witness ==
  /\ pc = "batch"
  /\ Len(batches) > 1
  /\ opts.maxConcurrent >= 2
  /\ Cardinality(InFlight) = opts.maxConcurrent

\* C4: any two requests one client dispatches to the source are at least
\* rateLimitDelay (1000 / rateLimitPerSecond ms) apart, whichever caller
\* issued them.
C4_SharedGate ==
  Len(net.dispatched) = 2 => net.dispatched[2] - net.dispatched[1] >= rateLimitDelay

\* C5: a failure while processing one filing aborts only that filing: once the
\* batches are done every candidate was either processed or reported, and
\* each filing a step of which failed contributed exactly one message.
C5_FailureIsolated ==
  (pc = "returned" /\ LastRun.stage = "positions") =>
    LET perFiling == Len(result.errors) - Len(LastRun.raised) IN
      /\ result.processedFilings + perFiling = Len(Candidates)
      /\ perFiling = failedFilings

\* C6: a transport failure on the index fetch of one day does not abort the
\* run: the candidate filings of the other days of the window are still
\* batched and processed.
C6_IndexFailureContained ==
  (pc = "returned" /\ LastRun.stage = "enumerate") =>
    \A d \in (1..NumDays) \ {day} :
      LET cs == filterByCIK(filter13F(DailyIndexFile(d)), opts) IN
        \A k \in DOMAIN cs :
          \E b \in DOMAIN batches : \E j \in DOMAIN batches[b] : batches[b][j] = cs[k]

\* C7: a 404 for the index of a date counts as an empty day, not a failure: no
\* run ends in enumeration on a not-found answer.
C7_IndexNotFoundIsEmpty ==
  \A r \in DOMAIN hist :
    hist[r].stage = "enumerate" => hist[r].raised[1].statusCode # 404

\* C8: downloadFiling requests the candidate paths in their fixed order, goes
\* to the next path on a 404, requests nothing after the first answer that
\* resolves, and fails with FILING_NOT_FOUND exactly when all paths gave 404.
C8_PathFallback ==
  \A i \in DOMAIN tasks :
    LET t == tasks[i]
        n == Len(t.answers)
        paths == possiblePaths(t.filing.accession_number)
    IN /\ t.requested = SubSeq(paths, 1, n)
       /\ \A k \in 1..(n - 1) : t.answers[k] = 404
       /\ (n > 0 /\ t.answers[n] = 404) =>
            IF n < Len(paths)
              THEN t.pc = "download" /\ t.pathIdx = n + 1
              ELSE t.pc = "rejected" /\ t.cause[1].code = "FILING_NOT_FOUND"
       /\ (t.pc = "rejected" /\ t.cause[1].code = "FILING_NOT_FOUND") =>
            (n = Len(paths) /\ t.answers[n] = 404)

\* C9: the client never retries: no URL is requested twice within one call of
\* get13FFilings or downloadFiling; a 429 answer surfaces as RATE_LIMIT and a
\* 403 answer as FORBIDDEN, other failed requests as EDGAR_API_ERROR, and a
\* 429 or 403 ends the call.
C9_NoRetryTypedFailures ==
  /\ NoDuplicates(idxRequested)
  /\ \A r \in DOMAIN hist :
       hist[r].stage = "enumerate" =>
         LET e == hist[r].raised[1] IN
           /\ e.statusCode = 429 <=> e.code = "RATE_LIMIT"
           /\ e.statusCode = 403 <=> e.code = "FORBIDDEN"
           /\ e.statusCode \notin {429, 403} <=> e.code = "EDGAR_API_ERROR"
  /\ \A i \in DOMAIN tasks :
       LET t == tasks[i]
           n == Len(t.answers)
       IN /\ NoDuplicates(t.requested)
          /\ (n > 0 /\ t.answers[n] = 429) =>
               /\ t.pc = "rejected"
               /\ t.cause[1].code = "RATE_LIMIT" /\ t.cause[1].statusCode = 429
          /\ (n > 0 /\ t.answers[n] = 403) =>
               /\ t.pc = "rejected"
               /\ t.cause[1].code = "FORBIDDEN" /\ t.cause[1].statusCode = 403
          /\ (n > 0 /\ t.answers[n] \in {404, 0} /\ t.pc = "rejected") =>
               t.cause[1].code \notin {"RATE_LIMIT", "FORBIDDEN"}

\* C9 witness: a download was answered 429 and its filing failed, after that
\* one request, with RATE_LIMIT
C9_Witness ==
  \E i \in DOMAIN tasks :
    /\ tasks[i].pc = "rejected"
    /\ tasks[i].answers = <<429>>
    /\ tasks[i].cause[1].code = "RATE_LIMIT"

C11_UniqueReferenceRows ==
  /\ NoDuplicates([k \in DOMAIN securities |-> securities[k].cusip])
  /\ NoDuplicates([k \in DOMAIN fundManagers |-> fundManagers[k].cik])

\* C11 witness: a task found no Security for its cusip and is about to insert
\* one, while a concurrent task has inserted it in between
C11_Witness ==
  \E i \in DOMAIN tasks :
    /\ tasks[i].pc = "secInsert"
    /\ violatesUnique(securities, "cusip",
                      tasks[i].parsed[1].informationTable[tasks[i].hIdx].cusip)

\* the key of a PositionChange row
changeKey(r) == <<r.fundManagerId, r.securityId, r.fromPeriod, r.toPeriod>>

\* C12: recomputation does not duplicate: after a further run that left the
\* Holding rows as they were, position_changes has at most one row per
\* (fundManagerId, securityId, fromPeriod, toPeriod).
C12_NoDuplicateChanges ==
  (/\ pc = "returned"
   /\ Len(hist) >= 2
   /\ LastRun.nHoldings = hist[Len(hist) - 1].nHoldings)
  => NoDuplicates([k \in DOMAIN positionChanges |-> changeKey(positionChanges[k])])

\* C13: for shares moving from 1,000,000 to 1,500,000 the emitted
\* PositionChange is INCREASED with sharesChange +500,000 and percentChange
\* +50% (in hundredths: 5000), whatever the market values of the two holdings.
C13_FiftyPercentIncrease ==
  Applied("change") =>
    /\ probe.output[1].changeType = "INCREASED"
    /\ probe.output[1].sharesChange = 500000
    /\ probe.output[1].percentChange = 50 * 100

\* C14: a position whose declared value is v (thousands) is parsed, on the
\* XML node path and on the text/HTML row path, to a canonical amount of
\* v * 1000 and written by processHoldings with market value v * 100000;
\* 12345 gives 12,345,000 and 1,234,500,000.
C14_ScalingsCompose ==
  Applied("holding") =>
    LET v == probe.input[2].value
        out == probe.output[1]
    IN /\ Len(out.parsed) = 1
       /\ out.parsed[1].value = v * 1000
       /\ Len(out.persisted) = 1
       /\ out.persisted[1].marketValue = v * 100000
       /\ v = 12345 => /\ out.parsed[1].value = 12345000
                       /\ out.persisted[1].marketValue = 1234500000

\* C14 witness: the declared value 12345 went through the XML node path and
\* the insert
C14_Witness ==
  /\ Applied("holding")
  /\ probe.input[1] = "xml"
  /\ probe.input[2].value = 12345
  /\ probe.output[1].persisted[1].marketValue = 1234500000

\* the holding nodes of a document whose identifier fails validation
invalidNodes(rows) == {k \in DOMAIN rows : ~isValidCUSIP(rows[k].cusip)}

\* C15: an XML filing with N holding nodes of which K have an invalid
\* identifier parses, and yields exactly N - K canonical holdings (N for K = 0).
C15_XmlYieldsValidNodes ==
  Applied("filing") =>
    LET rows == probe.input[1].rows
        out == probe.output[1]
    IN /\ out.ok
       /\ Len(out.value.informationTable) = Len(rows) - Cardinality(invalidNodes(rows))

\* C16: the canonical holding made from an XML node with a valid identifier
\* carries the node's own issuer name, class title, amount and type,
\* investment discretion and voting authority, and value = declared * 1000.
C16_XmlNodeFieldsMapped ==
  (Applied("holding") /\ probe.input[1] = "xml") =>
    LET row == probe.input[2]
        hs == probe.output[1].parsed
    IN /\ Len(hs) = 1
       /\ hs[1].cusip = row.cusip
       /\ hs[1].nameOfIssuer = row.nameOfIssuer
       /\ hs[1].titleOfClass = row.titleOfClass
       /\ hs[1].sshPrnamt = row.sshPrnamt
       /\ hs[1].sshPrnamtType = row.sshPrnamtType
       /\ hs[1].investmentDiscretion = row.investmentDiscretion
       /\ hs[1].votingSole = row.votingSole
       /\ hs[1].value = row.value * 1000

\* the filings of the batches before the one being awaited
settledBefore == SumSeq([k \in 1..(batchIdx - 1) |-> Len(batches[k])])

\* C17 as stated: when enumeration succeeded, on return processedFilings +
\* errors.length equals the number of candidate filings.
C17_AllCandidatesAccounted ==
  (pc = "returned" /\ LastRun.stage = "positions") =>
    result.processedFilings + Len(result.errors) = Len(Candidates)

\* C17: when enumeration succeeded every candidate filing is in exactly one
\* batch, the tasks of a batch are its filings, one each, the filings of the
\* batches before it are each counted once as processed or as an error, and
\* on return, after the last batch, processedFilings + errors.length is the
\* number of candidates plus one if the position-change pass failed.
C17_EveryCandidateOnce ==
  /\ pc \in {"batch", "positions"} => FlatSeq(batches) = Candidates
  /\ pc = "batch" =>
       /\ batchIdx \in 1..Len(batches)
       /\ [i \in DOMAIN tasks |-> tasks[i].filing] = batches[batchIdx]
       /\ result.processedFilings + Len(result.errors) = settledBefore
  /\ (pc = "returned" /\ LastRun.stage = "positions") =>
       /\ FlatSeq(batches) = Candidates
       /\ batches # << >> => batchIdx = Len(batches)
       /\ result.processedFilings + Len(result.errors)
            = Len(Candidates) + Len(LastRun.raised)

\* C17 witness: a run of several batches has returned after its position-
\* change pass with filings processed and a filing reported
C17_Witness ==
  /\ pc = "returned"
  /\ LastRun.stage = "positions"
  /\ LastRun.raised = << >>
  /\ Len(batches) >= 2
  /\ result.processedFilings >= 1
  /\ Len(result.errors) >= 1

\* C18: in each dialect the report date the parser extracts, which
\* createFilingRecord and processHoldings persist as periodEndDate, is the
\* quarter-end date the cover page states, whatever the day of parsing.
C18_PeriodEndFromCoverPage ==
  Applied("cover") => probe.output[1].reportDate = probe.input[1].quarter[1]

\* C19: for every filing a run counts as processed and did not skip, exactly
\* one Holding row is persisted per position the parser produced for it, also
\* when a filing processed concurrently in the same batch references the same
\* new security; stated here for runs in which no storage call or request
\* failed and for filings all of whose positions carry a valid identifier.
C19_OneHoldingPerPosition ==
  \A i \in CompletedTasks :
    LET hs == tasks[i].parsed[1].informationTable IN
      (faults = 0 /\ \A k \in DOMAIN hs : isValidCUSIP(hs[k].cusip)) =>
        Len(holdingsOf(tasks[i].filingId, 1)) = Len(hs)

\* C20: a batch starts only when every task of the batch before it has
\* completed (fulfilled or rejected) and it is the next batch; the position-
\* change pass starts only when there is no batch or every task of the last
\* batch has completed; once started it is followed only by the return of the
\* run, and a run returns from the pass, or from a failed connection or
\* enumeration, never from the middle of its batches.
C20_PhaseOrdering ==
  [][ /\ (pc = "batch" /\ pc' = "batch" /\ batchIdx' # batchIdx) =>
           /\ \A i \in DOMAIN tasks : tasks[i].pc \in {"fulfilled", "rejected"}
           /\ batchIdx' = batchIdx + 1
      /\ (pc # "positions" /\ pc' = "positions") =>
           /\ pc \in {"enumerate", "batch"}
           /\ pc = "enumerate" => batches' = << >>
           /\ pc = "batch" =>
                /\ batchIdx = Len(batches)
                /\ \A i \in DOMAIN tasks :
                      tasks[i].pc \in {"fulfilled", "rejected"}
      /\ pc = "positions" => pc' \in {"positions", "returned"}
      /\ (pc # "returned" /\ pc' = "returned") =>
           /\ pc \in {"connect", "enumerate", "positions"}
           /\ pc = "enumerate" => hist'[Len(hist')].raised # << >>
    ]_vars

\* C20 witness: the position-change pass of a run of several batches is about
\* to start, every batch done
C20_Witness ==
  /\ pc = "positions"
  /\ Len(batches) >= 2
  /\ batchIdx = Len(batches)
  /\ tasks = << >>

\* the rows a step appends to position_changes
emitted == SubSeq(positionChanges', Len(positionChanges) + 1, Len(positionChanges'))

\* holdings c and p are the two most recent of the group of row r
twoMostRecent(r, c, p) ==
  /\ c # p
  /\ groupKey(holdings[c]) = <<r.fundManagerId, r.securityId>>
  /\ groupKey(holdings[p]) = <<r.fundManagerId, r.securityId>>
  /\ holdings[c].periodEndDate >= holdings[p].periodEndDate
  /\ \A m \in DOMAIN holdings \ {c, p} :
       groupKey(holdings[m]) = groupKey(holdings[c]) =>
         holdings[p].periodEndDate >= holdings[m].periodEndDate

C22_DistinctPeriods ==
  faults = 0 =>
    \A k \in DOMAIN positionChanges :
      positionChanges[k].fromPeriod < positionChanges[k].toPeriod

\* the store holds a Filing of the fund manager resolved from the filer id of
\* `filing` with the filing date of `filing`
filedBefore(filing) ==
  \E m \in DOMAIN fundManagers, f \in DOMAIN filings :
    /\ fundManagers[m].cik = filing.cik
    /\ filings[f].fundManagerId = m
    /\ filings[f].filingDate = filing.date_filed

\* the task was settled by the skipExisting check
skipped(t) == t.pc = "fulfilled" /\ t.filingId = 0

\* C23: with skipExisting a candidate is skipped exactly when the store holds
\* a Filing of the same fund manager with the same filing date: a task that
\* has passed the check and goes on to download has no such Filing, a task
\* that was skipped has one, and a skipped task has requested no document,
\* resolved no row and contributes zero to the three counters.
C23_SkipExactlyExisting ==
  (pc = "batch" /\ opts.skipExisting) =>
    \A i \in DOMAIN tasks :
      LET t == tasks[i] IN
        /\ (t.pc = "download" /\ t.requested = << >>) => ~filedBefore(t.filing)
        /\ skipped(t) =>
             /\ filedBefore(t.filing)
             /\ t.requested = << >> /\ t.fmId = 0 /\ t.secId = 0
             /\ t.value[1] = [newHoldings |-> 0, updatedSecurities |-> 0,
                              newFundManagers |-> 0]

\* C24: a persistence failure while a row of a filing is persisted, one of its
\* Holding rows included, aborts the remaining steps of that filing: a task a
\* step of which has failed is rejected (and so reported in errors), it
\* inserts no further Holding and does not recompute percentages.
C24_PersistenceFailureAborts ==
  \A i \in DOMAIN tasks : tasks[i].failed => tasks[i].pc = "rejected"

\* C25: every holding in the result of the parser, and so every holding its
\* summary counts, carries an identifier that passes isValidCUSIP; the HTML
\* and text paths skip a row without one.
C25_ParsedIdentifiersValid ==
  \A i \in DOMAIN tasks :
    tasks[i].parsed # << >> =>
      LET hs == tasks[i].parsed[1].informationTable IN
        /\ \A k \in DOMAIN hs : isValidCUSIP(hs[k].cusip)
        /\ tasks[i].parsed[1].summaryPage.tableEntryTotal
             = Cardinality({k \in DOMAIN hs : isValidCUSIP(hs[k].cusip)})

C29_FailedParseLeavesStore ==
  [][ \A i \in DOMAIN tasks :
        (/\ pc = "batch" /\ pc' = "batch" /\ batchIdx' = batchIdx
         /\ tasks'[i] # tasks[i]
         /\ tasks[i].parsed = << >>) =>
          /\ fundManagers' = fundManagers /\ securities' = securities
          /\ filings' = filings /\ holdings' = holdings
          /\ tasks'[i].pc = "rejected" =>
               /\ tasks'[i].fmId = 0 /\ tasks'[i].filingId = 0
               /\ tasks'[i].secId = 0 /\ tasks'[i].newHoldings = 0
               /\ ~tasks'[i].fmIsNew
    ]_vars

\* C29 witness: beside filings that were persisted, a task whose document was
\* downloaded and failed to parse has been rejected
C29_Witness ==
  /\ filings # << >> /\ holdings # << >>
  /\ \E i \in DOMAIN tasks :
       /\ tasks[i].pc = "rejected"
       /\ tasks[i].parsed = << >>
       /\ tasks[i].answers # << >>
       /\ tasks[i].cause[1].code \in {"UNSUPPORTED_FORMAT", "XML_PARSE_ERROR"}

\* the step is one of task i within its batch
stepOf(i) ==
  /\ pc = "batch" /\ pc' = "batch" /\ batchIdx' = batchIdx
  /\ tasks'[i] # tasks[i]

\* C27: first-sight name wins: no step changes a stored FundManager or
\* Security row; resolving a FundManager by a filer id that is stored, or a
\* Security by an identifier that is stored, gives the id of the stored row
\* with isNew = false and inserts nothing, whatever name the filing carries.
C27_FirstSightNameWins ==
  [][ /\ \A k \in DOMAIN fundManagers :
           k \in DOMAIN fundManagers' /\ fundManagers'[k] = fundManagers[k]
      /\ \A k \in DOMAIN securities :
           k \in DOMAIN securities' /\ securities'[k] = securities[k]
      /\ \A i \in DOMAIN tasks :
           (/\ stepOf(i) /\ tasks[i].pc = "fmSelect"
            /\ ~tasks'[i].failed
            /\ \E k \in DOMAIN fundManagers :
                 fundManagers[k].cik = tasks[i].filing.cik) =>
             /\ tasks'[i].pc = "createFiling"
             /\ tasks'[i].fmId \in DOMAIN fundManagers
             /\ fundManagers[tasks'[i].fmId].cik = tasks[i].filing.cik
             /\ ~tasks'[i].fmIsNew
             /\ fundManagers' = fundManagers
      /\ \A i \in DOMAIN tasks :
           (/\ stepOf(i) /\ tasks[i].pc = "secSelect"
            /\ ~tasks'[i].failed
            /\ \E k \in DOMAIN securities :
                 securities[k].cusip
                   = tasks[i].parsed[1].informationTable[tasks[i].hIdx].cusip) =>
             /\ tasks'[i].pc = "holdingInsert"
             /\ tasks'[i].secId \in DOMAIN securities
             /\ securities[tasks'[i].secId].cusip
                  = tasks[i].parsed[1].informationTable[tasks[i].hIdx].cusip
             /\ tasks'[i].updatedSecurities = tasks[i].updatedSecurities
             /\ securities' = securities
    ]_vars

\* C27 witness: a filing that names its filer differently from the stored
\* row, and a security differently from the stored row, has resolved both
C27_Witness ==
  \E i \in DOMAIN tasks :
    /\ tasks[i].pc = "holdingInsert"
    /\ tasks[i].fmId # 0 /\ ~tasks[i].fmIsNew
    /\ fundManagers[tasks[i].fmId].name # tasks[i].filing.company_name
    /\ tasks[i].updatedSecurities = 0
    /\ securities[tasks[i].secId].companyName
         # tasks[i].parsed[1].informationTable[tasks[i].hIdx].nameOfIssuer

\* C28: in every reachable state every Holding row references a stored
\* Filing, Security and FundManager row, its fundManagerId is that of its
\* Filing and its periodEndDate is that of its Filing.
C28_ReferentialConsistency ==
  \A k \in DOMAIN holdings :
    LET h == holdings[k] IN
      /\ h.filingId \in DOMAIN filings
      /\ h.securityId \in DOMAIN securities
      /\ h.fundManagerId \in DOMAIN fundManagers
      /\ filings[h.filingId].fundManagerId \in DOMAIN fundManagers
      /\ h.fundManagerId = filings[h.filingId].fundManagerId
      /\ h.periodEndDate = filings[h.filingId].periodEndDate

\* C28 witness: two tasks of one batch, both past their Filing row and not
\* settled, have each persisted a Holding
C28_Witness ==
  \E i, j \in DOMAIN tasks :
    /\ i # j
    /\ ~Settled(tasks[i]) /\ ~Settled(tasks[j])
    /\ tasks[i].newHoldings >= 1 /\ tasks[j].newHoldings >= 1
    /\ \E k \in DOMAIN holdings : holdings[k].filingId = tasks[i].filingId
    /\ \E k \in DOMAIN holdings : holdings[k].filingId = tasks[j].filingId

\* C30: the daily ingestion of the scheduler excludes itself: at most one
\* daily run is in flight at any instant (a trigger that finds one in flight
\* returns without starting another), and the isRunning guard is set exactly
\* while a run is in flight: it is released when the run ends, whether it
\* returned or threw, so a trigger after that starts a run.
C30_DailyRunExclusive ==
  /\ Cardinality(dailyRunsInFlight) <= 1
  /\ sched.isRunning <=> dailyRunsInFlight # {}
  /\ sched.started = Len(sched.ended) + Cardinality(dailyRunsInFlight)

\* C30 witness: a trigger was skipped while a run was in flight, a run ended
\* by throwing, and a later trigger has started a run
C30_Witness ==
  /\ sched.skipped >= 1
  /\ \E k \in DOMAIN sched.ended : sched.ended[k] = "thrown"
  /\ sched.ended[Len(sched.ended)] = "thrown"
  /\ dailyRunsInFlight # {}

====
